---- MODULE Spec2Model ----
(***************************************************************************)
(* Model of package s3 (client.go): Client.Get / Client.Put / Client.Do,   *)
(* Signer.Sign and findLen.  One call of Do is a pipeline of four steps    *)
(* (content length, timestamp, sign, send); each step that calls out to a  *)
(* collaborator (io.Seeker, Client.Time, Client.Sign, http.Client) is one  *)
(* action.                                                                 *)
(*                                                                         *)
(* Encodings.  A Go error is a sequence of message fragments, the nil      *)
(* error is <<>>.  A pointer or function value is a string, "nil" being    *)
(* the nil value.  An optional history value is a sequence of length 0/1.  *)
(***************************************************************************)
EXTENDS Integers, Sequences, FiniteSets, TLC

VARIABLES
    c,            \* the Client: fields Sign, Time, Client
    signer,       \* the Signer whose Sign method c.Sign is bound to (if it is)
    DefaultKeys,  \* package variable DefaultKeys (*Keys)
    op,           \* entry point of the call in progress: "none","Get","Put","Do"
    given,        \* the body the caller passed to that entry point
    req,          \* the *http.Request being processed (mutated in place)
    req0,         \* req as it was when Do was entered
    pc,           \* position of the call: idle, len, date, sign, send, done, panic
    ret,          \* what the entry point returned: resp, err
    trace,        \* calls made to collaborators so far: seek, time, sign, send
    signRet,      \* <<e>> once c.Sign returned e
    svcArgs,      \* <<[sv, keys]>> once Service.Sign was called with them
    sent,         \* <<[via, req]>> once a transport was given req
    tr            \* <<[resp, err]>> once the transport returned

vars == <<c, signer, DefaultKeys, op, given, req, req0, pc, ret, trace,
          signRet, svcArgs, sent, tr>>

\* Largest end offset of a body stream.
MaxEnd == 1

NilErr == <<>>

-----------------------------------------------------------------------------
(* Input domains *)

Methods == {"GET", "PUT"}

\* Pointers to Keys values and the values they point to.
KeyPtrs == {"kA", "kB"}

KeyHeap ==
    [kA |-> [AccessKey |-> "AK", SecretKey |-> "SK", SecurityToken |-> ""],
     kB |-> [AccessKey |-> "AK2", SecretKey |-> "SK2", SecurityToken |-> "tok"]]

\* var DefaultService: a non-nil *Service.
DefaultService == "DefaultService"

ServicePtrs == {"svcX"}

\* DefaultSigner = &Signer{}
DefaultSigner == [Keys |-> "nil", Service |-> "nil"]

Signers == [Keys : {"nil", "kA"}, Service : {"nil"} \cup ServicePtrs]

\* Values of field Client.Sign: nil, a caller's function that returns nil,
\* a caller's function that returns an error, or the method value s.Sign.
SignFuncs == {"nil", "signOK", "signErrDenied", "signErrClock", "Signer.Sign"}

\* What a caller-supplied Sign function returns.
SignFuncErr(f) ==
    CASE f = "signErrDenied" -> <<"denied">>
      [] f = "signErrClock"  -> <<"clock skew">>
      [] OTHER               -> NilErr

\* Values of field Client.Time: nil, or a clock.  An instant is the hour of
\* the day in UTC together with the zone offset of its Location.
TimeFuncs == {"nil", "clockUTC", "clockLocal"}

TimeNow(f) ==
    IF f = "clockLocal" THEN [utc |-> 23, off |-> 2] ELSE [utc |-> 10, off |-> 0]

\* time.Time.Format(http.TimeFormat): the wall-clock fields of the instant
\* in its own Location followed by the literal zone name "GMT".
FormatHTTP(t) == [wall |-> (t.utc + t.off) % 24, zone |-> "GMT"]

\* Values of field Client.Client.
HTTPClients == {"nil", "custom"}

\* A body stream.  kind: "nil" (no body), "reader" (io.Reader only),
\* "seeker" (an io.ReadSeeker such as *os.File; its n-th Seek fails when
\* failAt = n), "strings" (*strings.Reader), "nobody" (http.NoBody).
NilBody == [kind |-> "nil", pos |-> 0, end |-> 0, failAt |-> 0]

Bodies ==
    {NilBody, [kind |-> "reader", pos |-> 0, end |-> 0, failAt |-> 0]}
    \cup [kind : {"seeker"}, pos : 0..(MaxEnd + 1), end : 0..MaxEnd, failAt : 0..3]
    \cup [kind : {"strings"}, pos : 0..(MaxEnd + 1), end : 0..MaxEnd, failAt : {0}]

Seekable(b) == b.kind \in {"seeker", "strings"}

\* Header maps a caller passes to Do: any subset of Date and X-Amz-Date.
PresetDate == [wall |-> 7, zone |-> "GMT"]

Headers ==
    { [k \in D |-> PresetDate] : D \in SUBSET {"Date", "X-Amz-Date"} }

NoReq == [Method |-> "", ContentLength |-> 0, Body |-> NilBody, Header |-> <<>>]

\* What a transport may return.
TransportResults ==
    { [resp |-> "r200", err |-> NilErr],
      [resp |-> "r403", err |-> NilErr],
      [resp |-> "nil",  err |-> <<"dial tcp: timeout">>] }

-----------------------------------------------------------------------------
(* Helpers *)

Calls(x) == Cardinality({i \in DOMAIN trace : trace[i] = x})

Repeat(x, n) == [i \in 1..n |-> x]

\* http.Header.Set for a single-valued key.
HeaderSet(h, k, v) == [x \in DOMAIN h \cup {k} |-> IF x = k THEN v ELSE h[x]]

\* http.NewRequest(method, url, body).
NewRequest(method, url, body) ==
    IF url = "bad"
    THEN [req |-> NoReq, err |-> <<"parse url">>]
    ELSE LET n == IF body.kind = "strings" /\ body.end > body.pos
                  THEN body.end - body.pos ELSE 0
             b == IF body.kind = "strings" /\ n = 0
                  THEN [NilBody EXCEPT !.kind = "nobody"] ELSE body
         IN [req |-> [Method |-> method, ContentLength |-> n, Body |-> b,
                      Header |-> <<>>],
             err |-> NilErr]

\* io.Seeker.Seek(offset, whence), the n-th seek findLen makes on s.
Seek(s, offset, whence, n) ==
    IF s.failAt = n
    THEN [s |-> s, ret |-> 0, err |-> <<"seek failed">>]
    ELSE LET np == CASE whence = 0 -> offset
                     [] whence = 1 -> s.pos + offset
                     [] OTHER      -> s.end + offset
         IN [s |-> [s EXCEPT !.pos = np], ret |-> np, err |-> NilErr]

\* func findLen(s io.Seeker) (int64, error)
findLen(s) ==
    LET r1 == Seek(s, 0, 1, 1) IN
    IF r1.err # NilErr
    THEN [n |-> 0, err |-> <<"cannot seek: ">> \o r1.err, s |-> r1.s, seeks |-> 1]
    ELSE
    LET r2 == Seek(r1.s, 0, 2, 2) IN
    IF r2.err # NilErr
    THEN [n |-> 0, err |-> <<"cannot seek: ">> \o r2.err, s |-> r2.s, seeks |-> 2]
    ELSE
    LET r3 == Seek(r2.s, r1.ret, 0, 3) IN
    IF r3.err # NilErr
    THEN [n |-> 0, err |-> <<"cannot seek: ">> \o r3.err, s |-> r3.s, seeks |-> 3]
    ELSE
    IF r1.ret > r2.ret
    THEN [n |-> 0, err |-> <<"cannot find length, current position is past end">>,
          s |-> r3.s, seeks |-> 3]
    ELSE [n |-> r2.ret - r1.ret, err |-> NilErr, s |-> r3.s, seeks |-> 3]

\* (*Service).Sign(req, keys): sets X-Amz-Security-Token when the keys carry
\* a token, then Authorization to "<scheme> <access key>:<signature>".
ServiceSign(sv, r, keys) ==
    LET h1 == IF keys.SecurityToken # ""
              THEN HeaderSet(r.Header, "X-Amz-Security-Token", keys.SecurityToken)
              ELSE r.Header
        date == IF "X-Amz-Date" \in DOMAIN h1 THEN <<>>
                ELSE IF "Date" \in DOMAIN h1 THEN <<h1["Date"]>> ELSE <<>>
    IN HeaderSet(h1, "Authorization",
                 [scheme |-> "AWS", ak |-> keys.AccessKey,
                  sig |-> <<keys.SecretKey, r.Method, date>>])

\* Mutant of SignerSign: the per-signer Keys and Service never shadow the
\* defaults.
SignerSignDefaultsOnly(s, r, dk) ==
    [panic |-> dk = "nil",
     call |-> IF dk = "nil" THEN <<>>
              ELSE <<[sv |-> DefaultService, keys |-> KeyHeap[dk]]>>,
     Header |-> IF dk = "nil" THEN r.Header
                ELSE ServiceSign(DefaultService, r, KeyHeap[dk]),
     err |-> NilErr]

\* func (s *Signer) Sign(req *http.Request) error, with DefaultKeys = dk.
\* Dereferencing a nil keys pointer panics before Service.Sign is called.
SignerSign(s, r, dk) ==
    LET keys == IF s.Keys = "nil" THEN dk ELSE s.Keys
        sv   == IF s.Service = "nil" THEN DefaultService ELSE s.Service
    IN [panic |-> keys = "nil",
        call |-> IF keys = "nil" THEN <<>>
                 ELSE <<[sv |-> sv, keys |-> KeyHeap[keys]]>>,
        Header |-> IF keys = "nil" THEN r.Header
                   ELSE ServiceSign(sv, r, KeyHeap[keys]),
        err |-> NilErr]

\* Mutant of WrapSignErr: the signer's error is returned as it is.
WrapSignErrVerbatim(e) == e

\* fmt.Errorf("sign request: %v", err)
WrapSignErr(e) == <<"sign request: ">> \o e

-----------------------------------------------------------------------------
(* Initial state: a Client and a Signer as the caller configured them.     *)

Init ==
    /\ c \in [Sign : SignFuncs, Time : TimeFuncs, Client : HTTPClients]
    /\ signer \in Signers
    /\ (c.Sign # "Signer.Sign" => signer = DefaultSigner)
    /\ DefaultKeys = "nil"
    /\ op = "none"
    /\ given = NilBody
    /\ req = NoReq
    /\ req0 = NoReq
    /\ pc = "idle"
    /\ ret = [resp |-> "nil", err |-> NilErr]
    /\ trace = <<>>
    /\ signRet = <<>>
    /\ svcArgs = <<>>
    /\ sent = <<>>
    /\ tr = <<>>

histUnchanged == UNCHANGED <<trace, signRet, svcArgs, sent, tr>>

\* s3.DefaultKeys = &s3.Keys{...}, done by the caller between requests.
SetDefaultKeys ==
    /\ pc = "idle"
    /\ DefaultKeys = "nil"
    /\ \E k \in KeyPtrs : DefaultKeys' = k
    /\ UNCHANGED <<c, signer, op, given, req, req0, pc, ret>>
    /\ histUnchanged

\* Get and Put after the call of http.NewRequest: either NewRequest failed
\* and the entry point returns its error, or c.Do(req) is entered.
Enter(name, nr, body) ==
    /\ op' = name
    /\ given' = body
    /\ req' = nr.req
    /\ req0' = nr.req
    /\ IF nr.err # NilErr
       THEN pc' = "done" /\ ret' = [resp |-> "nil", err |-> nr.err]
       ELSE pc' = "len" /\ ret' = ret
    /\ UNCHANGED <<c, signer, DefaultKeys>>
    /\ histUnchanged

\* func (c *Client) Get(url string)
Get ==
    /\ pc = "idle"
    /\ \E url \in {"ok", "bad"} :
          Enter("Get", NewRequest("GET", url, NilBody), NilBody)

\* func (c *Client) Put(url string, body io.Reader)
Put ==
    /\ pc = "idle"
    /\ \E url \in {"ok", "bad"}, body \in Bodies :
          Enter("Put", NewRequest("GET", url, body), body)

\* A caller builds a request and calls c.Do(req) directly.
CallDo ==
    /\ pc = "idle"
    /\ \E m \in Methods, n \in {0, 5}, b \in Bodies, h \in Headers :
          /\ req' = [Method |-> m, ContentLength |-> n, Body |-> b, Header |-> h]
          /\ given' = b
    /\ req0' = req'
    /\ op' = "Do"
    /\ pc' = "len"
    /\ UNCHANGED <<c, signer, DefaultKeys, ret>>
    /\ histUnchanged

\* Mutant of DoLen: the declared ContentLength is not looked at.
DoLenIgnoreDeclared ==
    /\ pc = "len"
    /\ IF req.Body.kind # "nil" /\ Seekable(req.Body)
       THEN LET r == findLen(req.Body) IN
            /\ req' = [req EXCEPT !.ContentLength = r.n, !.Body = r.s]
            /\ trace' = trace \o Repeat("seek", r.seeks)
            /\ IF r.err = NilErr
               THEN pc' = "done" /\ ret' = [resp |-> "nil", err |-> r.err]
               ELSE pc' = "date" /\ ret' = ret
       ELSE /\ pc' = "date"
            /\ UNCHANGED <<req, trace, ret>>
    /\ UNCHANGED <<c, signer, DefaultKeys, op, given, req0, signRet, svcArgs, sent, tr>>

\* Do, content length step (client.go 51-59).  The error test is the
\* code's: Do returns findLen's error when that error IS nil.
DoLen ==
    /\ pc = "len"
    /\ IF req.ContentLength = 0 /\ req.Body.kind # "nil" /\ Seekable(req.Body)
       THEN LET r == findLen(req.Body) IN
            /\ req' = [req EXCEPT !.ContentLength = r.n, !.Body = r.s]
            /\ trace' = trace \o Repeat("seek", r.seeks)
            /\ IF r.err = NilErr
               THEN pc' = "done" /\ ret' = [resp |-> "nil", err |-> r.err]
               ELSE pc' = "date" /\ ret' = ret
       ELSE /\ pc' = "date"
            /\ UNCHANGED <<req, trace, ret>>
    /\ UNCHANGED <<c, signer, DefaultKeys, op, given, req0, signRet, svcArgs, sent, tr>>

\* Mutant of DoDate: only the Date key is looked up.
DoDateIgnoreAmz ==
    /\ pc = "date"
    /\ IF "Date" \notin DOMAIN req.Header
       THEN IF c.Time = "nil"
            THEN pc' = "panic" /\ UNCHANGED <<req, trace>>
            ELSE /\ req' = [req EXCEPT !.Header =
                              HeaderSet(@, "Date", FormatHTTP(TimeNow(c.Time)))]
                 /\ trace' = Append(trace, "time")
                 /\ pc' = "sign"
       ELSE pc' = "sign" /\ UNCHANGED <<req, trace>>
    /\ UNCHANGED <<c, signer, DefaultKeys, op, given, req0, ret, signRet, svcArgs, sent, tr>>

\* Do, timestamp step (client.go 60-64).  c.Time is called as it is: a nil
\* func value panics.
DoDate ==
    /\ pc = "date"
    /\ IF "Date" \notin DOMAIN req.Header /\ "X-Amz-Date" \notin DOMAIN req.Header
       THEN IF c.Time = "nil"
            THEN pc' = "panic" /\ UNCHANGED <<req, trace>>
            ELSE /\ req' = [req EXCEPT !.Header =
                              HeaderSet(@, "Date", FormatHTTP(TimeNow(c.Time)))]
                 /\ trace' = Append(trace, "time")
                 /\ pc' = "sign"
       ELSE pc' = "sign" /\ UNCHANGED <<req, trace>>
    /\ UNCHANGED <<c, signer, DefaultKeys, op, given, req0, ret, signRet, svcArgs, sent, tr>>

\* Do, signing step (client.go 65-68).  c.Sign is called as it is: a nil
\* func value panics.
DoSign ==
    /\ pc = "sign"
    /\ IF c.Sign = "nil"
       THEN pc' = "panic" /\ UNCHANGED <<req, ret, trace, signRet, svcArgs>>
       ELSE
       /\ trace' = Append(trace, "sign")
       /\ IF c.Sign = "Signer.Sign"
          THEN LET r == SignerSign(signer, req, DefaultKeys) IN
               /\ svcArgs' = r.call
               /\ req' = [req EXCEPT !.Header = r.Header]
               /\ IF r.panic
                  THEN pc' = "panic" /\ UNCHANGED <<ret, signRet>>
                  ELSE /\ signRet' = <<r.err>>
                       /\ pc' = "send"
                       /\ ret' = ret
          ELSE LET e == SignFuncErr(c.Sign) IN
               /\ signRet' = <<e>>
               /\ svcArgs' = svcArgs
               /\ IF e # NilErr
                  THEN /\ pc' = "done"
                       /\ ret' = [resp |-> "nil", err |-> WrapSignErr(e)]
                       /\ req' = req
                  ELSE /\ pc' = "send"
                       /\ ret' = ret
                       /\ req' = [req EXCEPT !.Header =
                                     HeaderSet(@, "Authorization",
                                       [scheme |-> "AWS", ak |-> "caller",
                                        sig |-> <<"caller", req.Method, <<>>>>])]
    /\ UNCHANGED <<c, signer, DefaultKeys, op, given, req0, sent, tr>>

\* Mutant of DoSend: a non-2xx response is turned into an error.
DoSendInspect ==
    /\ pc = "send"
    /\ \E r \in TransportResults :
          /\ tr' = <<r>>
          /\ ret' = IF r.resp = "r403"
                    THEN [resp |-> "nil", err |-> <<"403 Forbidden">>] ELSE r
    /\ sent' = <<[via |-> IF c.Client = "nil" THEN "http.DefaultClient" ELSE c.Client,
                  req |-> req]>>
    /\ trace' = Append(trace, "send")
    /\ pc' = "done"
    /\ UNCHANGED <<c, signer, DefaultKeys, op, given, req, req0, signRet, svcArgs>>

\* Do, transport step (client.go 69-73).
DoSend ==
    /\ pc = "send"
    /\ \E r \in TransportResults :
          /\ tr' = <<r>>
          /\ ret' = r
    /\ sent' = <<[via |-> IF c.Client = "nil" THEN "http.DefaultClient" ELSE c.Client,
                  req |-> req]>>
    /\ trace' = Append(trace, "send")
    /\ pc' = "done"
    /\ UNCHANGED <<c, signer, DefaultKeys, op, given, req, req0, signRet, svcArgs>>

\* The entry point has returned; the caller may make the next call.
Return ==
    /\ pc = "done"
    /\ pc' = "idle"
    /\ op' = "none"
    /\ given' = NilBody
    /\ req' = NoReq
    /\ req0' = NoReq
    /\ ret' = [resp |-> "nil", err |-> NilErr]
    /\ trace' = <<>>
    /\ signRet' = <<>>
    /\ svcArgs' = <<>>
    /\ sent' = <<>>
    /\ tr' = <<>>
    /\ UNCHANGED <<c, signer, DefaultKeys>>

Next ==
    \/ SetDefaultKeys
    \/ Get
    \/ Put
    \/ CallDo
    \/ DoLen
    \/ DoDate
    \/ DoSign
    \/ DoSend
    \/ Return

Spec == Init /\ [][Next]_vars

-----------------------------------------------------------------------------
(* Vocabulary of the properties *)

\* c.Do(req) has been entered by the call in progress.
Entered == req0.Method # ""

\* The request Do received asks for a length probe.
Probed(r) == r.ContentLength = 0 /\ r.Body.kind # "nil" /\ Seekable(r.Body)

\* No seek of the probe fails and the position is not past the end.
ProbeSucceeds(r) == Probed(r) /\ r.Body.failAt = 0 /\ r.Body.pos <= r.Body.end

\* A seek of the probe fails, or the position is past the end.
ProbeFails(r) == Probed(r) /\ ~ProbeSucceeds(r)

\* The timestamp step has completed: the signer is about to be or has been
\* invoked.
PastDate == pc \in {"sign", "send"} \/ Calls("sign") >= 1

HadDate == "Date" \in DOMAIN req0.Header
HadAmzDate == "X-Amz-Date" \in DOMAIN req0.Header

ZeroClient == [Sign |-> "nil", Time |-> "nil", Client |-> "nil"]

CallRank(x) ==
    CASE x = "seek" -> 1 [] x = "time" -> 2 [] x = "sign" -> 3 [] OTHER -> 4

StepRank(p) ==
    CASE p = "idle" -> 0 [] p = "len" -> 1 [] p = "date" -> 2
      [] p = "sign" -> 3 [] p = "send" -> 4 [] OTHER -> 5

-----------------------------------------------------------------------------
(* Properties *)

\* C1: when Do receives ContentLength 0 and a seekable body at position p
\* with end offset e, p <= e, and no seek fails, then after the length step
\* ContentLength is e - p, the stream is back at p, and Do goes on to call
\* the signer and (if signing succeeds) the transport.
C1_ProbeThenSend ==
    (Entered /\ ProbeSucceeds(req0) /\ pc # "len") =>
        /\ req.ContentLength = req0.Body.end - req0.Body.pos
        /\ req.Body.pos = req0.Body.pos
        /\ (pc = "done" => Calls("sign") = 1)
        /\ (pc = "done" /\ signRet = <<NilErr>> => Calls("send") = 1)

\* C2: when a seek of the length probe fails or the position is past the
\* end, neither the signer nor the transport is invoked and Do returns a
\* non-nil error.
C2_SeekFailureAborts ==
    (Entered /\ ProbeFails(req0) /\ pc # "len") =>
        /\ Calls("sign") = 0
        /\ Calls("send") = 0
        /\ (pc = "done" => ret.err # NilErr)

\* C3: Do on the zero Client (Sign, Time and Client all nil), with default
\* keys configured, never calls a nil function, and sends through
\* http.DefaultClient.
C3_ZeroValueUsable ==
    (Entered /\ c = ZeroClient /\ DefaultKeys # "nil") =>
        /\ pc # "panic"
        /\ (sent # <<>> => sent[1].via = "http.DefaultClient")

\* C4: Signer.Sign with Keys nil and DefaultKeys nil returns an error: it
\* does not crash, sets no Authorization header, and the transport is not
\* invoked.
C4_MissingCredentials ==
    (c.Sign = "Signer.Sign" /\ signer.Keys = "nil" /\ DefaultKeys = "nil"
       /\ Calls("sign") = 1) =>
        /\ pc # "panic"
        /\ signRet # <<>>
        /\ signRet[1] # NilErr
        /\ "Authorization" \notin DOMAIN req.Header
        /\ Calls("send") = 0

C6_SignFailureStops ==
    (signRet # <<>> /\ signRet[1] # NilErr) =>
        /\ pc = "done"
        /\ ret.resp = "nil"
        /\ ret.err = <<"sign request: ">> \o signRet[1]
        /\ Calls("send") = 0
        /\ sent = <<>>
        /\ tr = <<>>

\* C6 witness: Sign returned "denied" and Do returned it wrapped.
C6_Witness ==
    /\ pc = "done"
    /\ signRet = << <<"denied">> >>
    /\ ret = [resp |-> "nil", err |-> <<"sign request: ", "denied">>]

C7_Order ==
    /\ Calls("sign") <= 1
    /\ Calls("send") <= 1
    /\ \A i, j \in DOMAIN trace : i < j => CallRank(trace[i]) <= CallRank(trace[j])
    /\ Calls("sign") = 1 => pc \notin {"idle", "len", "date"}
    /\ Calls("send") = 1 =>
          /\ signRet = <<NilErr>>
          /\ pc = "done"
          /\ tr # <<>>
          /\ ret = tr[1]

C7_Step ==
    /\ pc \in {"len", "date", "sign", "send"} => pc' # pc
    /\ pc' # pc => (StepRank(pc') > StepRank(pc) \/ pc' = "idle")

\* C7: within one call of Do the signer is invoked at most once and only
\* after the length and timestamp steps, the transport at most once and
\* only after the signer returned nil, the steps are taken in order and
\* none twice, and once the transport was invoked Do has returned exactly
\* what the transport returned.
C7_LinearPipeline == []C7_Order /\ [][C7_Step]_vars

\* C7 witness: a call went through Time, Sign and the transport and
\* returned the transport's 403 response.
C7_Witness ==
    /\ pc = "done"
    /\ Calls("time") = 1 /\ Calls("sign") = 1 /\ Calls("send") = 1
    /\ tr = <<[resp |-> "r403", err |-> NilErr]>>
    /\ ret.resp = "r403"

\* C8: the request Put hands to Do has method PUT and the given body, the
\* request Get hands to Do has method GET and no body.
C8_MethodPerOperation ==
    /\ (op = "Put" /\ Entered) =>
          /\ req0.Method = "PUT"
          /\ (req0.Body = given \/ req0.Body.kind = "nobody")
    /\ (op = "Get" /\ Entered) =>
          /\ req0.Method = "GET"
          /\ req0.Body = NilBody

C9_Resolved ==
    svcArgs # <<>> =>
        /\ svcArgs[1].keys =
              KeyHeap[IF signer.Keys # "nil" THEN signer.Keys ELSE DefaultKeys]
        /\ svcArgs[1].sv =
              (IF signer.Service # "nil" THEN signer.Service ELSE DefaultService)

C9_SignStep == pc = "sign" => (DefaultKeys' = DefaultKeys /\ signer' = signer)

\* C9: the keys and service handed to Service.Sign are the Signer's own
\* when non-nil and DefaultKeys / DefaultService otherwise, and the signing
\* step leaves DefaultKeys and the Signer as they were.
C9_KeyResolution == []C9_Resolved /\ [][C9_SignStep]_vars

\* C9 witness: both a per-signer key and a default key are set, and the
\* per-signer key and service were handed to Service.Sign.
C9_Witness ==
    /\ svcArgs # <<>>
    /\ signer = [Keys |-> "kA", Service |-> "svcX"]
    /\ DefaultKeys = "kB"
    /\ svcArgs[1] = [sv |-> "svcX", keys |-> KeyHeap["kA"]]

\* C10: when the body is nil, or ContentLength is non-zero, or the body is
\* not seekable, Do makes no seek, leaves ContentLength and the body as
\* they were, and does not return before the signer is invoked (nor, when
\* the signer returns nil, before the transport is).
C10_ProbeSkipped ==
    (Entered /\ ~Probed(req0)) =>
        /\ Calls("seek") = 0
        /\ req.ContentLength = req0.ContentLength
        /\ req.Body = req0.Body
        /\ (pc = "done" => Calls("sign") = 1)
        /\ (pc = "done" /\ signRet = <<NilErr>> => Calls("send") = 1)

\* C10 witness: a seekable body with a declared length of 5 was sent
\* without a seek.
C10_Witness ==
    /\ pc = "done"
    /\ req0.ContentLength = 5
    /\ req0.Body.kind = "seeker"
    /\ Calls("seek") = 0
    /\ Calls("send") = 1
    /\ sent[1].req.ContentLength = 5

====
